---------------------------- MODULE Spec2Model ----------------------------
(***************************************************************************)
(* A model of anydisplay's Canvas (src/anydisplay/__init__.py): the        *)
(* per-physical-pixel buffer of (r, g, b, coverage), the three             *)
(* rasterisation regimes of Canvas.set(), the compositing rule,            *)
(* Canvas.set_image(), clear(), show() and quit(), over a Display (the     *)
(* Pixel Sink) that is observed through the calls it receives.             *)
(*                                                                         *)
(* Numbers.  The code computes in float64.  The model computes in exact    *)
(* rationals <<n, d>> (d > 0, lowest terms), so that equalities such as    *)
(* scale == 1.0 or int(dx) == dx are decided exactly; the inputs are       *)
(* small multiples of halves, quarters and thirds, on which the code's     *)
(* float64 comparisons come out as the exact ones do.                      *)
(***************************************************************************)
EXTENDS Integers, Sequences, FiniteSets, TLC

-----------------------------------------------------------------------------
(* Rational arithmetic *)

Abs(a) ==
    IF a < 0 THEN -a ELSE a

RECURSIVE Gcd(_, _)
Gcd(a, b) ==
    IF b = 0 THEN a ELSE Gcd(b, a % b)

\* The rational n/d (d # 0) in lowest terms with a positive denominator.
Q(n, d) ==
    LET g == Gcd(Abs(n), Abs(d))
        s == IF d < 0 THEN -1 ELSE 1
    IN  <<(s * n) \div g, (s * d) \div g>>

I(n) ==
    <<n, 1>>

Zero ==
    <<0, 1>>

One ==
    <<1, 1>>

RAdd(a, b) ==
    Q(a[1] * b[2] + b[1] * a[2], a[2] * b[2])

RSub(a, b) ==
    Q(a[1] * b[2] - b[1] * a[2], a[2] * b[2])

RMul(a, b) ==
    Q(a[1] * b[1], a[2] * b[2])

RDiv(a, b) ==
    Q(a[1] * b[2], a[2] * b[1])

RLe(a, b) ==
    a[1] * b[2] <= b[1] * a[2]

RLt(a, b) ==
    a[1] * b[2] < b[1] * a[2]

RMin(a, b) ==
    IF RLe(a, b) THEN a ELSE b

RMax(a, b) ==
    IF RLe(a, b) THEN b ELSE a

RAbs(a) ==
    <<Abs(a[1]), a[2]>>

IsInt(a) ==
    a[2] = 1

\* math.floor
Floor(a) ==
    a[1] \div a[2]

\* math.ceil
Ceil(a) ==
    -((-a[1]) \div a[2])

\* Python's int() of a float: truncation towards zero.
PyInt(a) ==
    IF a[1] >= 0 THEN a[1] \div a[2] ELSE -((-a[1]) \div a[2])

\* Python's round() of a float: to the nearest integer, ties to the even one.
PyRound(a) ==
    LET f == Floor(a)
        twice == RSub(RMul(I(2), a), I(2 * f))   \* 2 * (a - f), in [0, 2)
    IN  IF RLt(twice, One) THEN f
        ELSE IF RLt(One, twice) THEN f + 1
        ELSE IF f % 2 = 0 THEN f ELSE f + 1

-----------------------------------------------------------------------------
(* Canvas.set(): colour clamping, compositing, the three regimes *)

\* A buffer entry canvas[x][y]: <<r, g, b, coverage>>.
EmptyPixel ==
    <<Zero, Zero, Zero, Zero>>

\* Clamp with the lower clamp forgotten.
ClampUpperOnly(v) ==
    RMin(v, One)

\* dr = r if 0 <= r <= 1 else min(max(0.0, r), 1.0)
Clamp(v) ==
    IF RLe(Zero, v) /\ RLe(v, One) THEN v ELSE RMin(RMax(Zero, v), One)

\* pixel[i] = p if p < 1.0 else 1.0
Remember(v) ==
    IF RLt(v, One) THEN v ELSE One

\* min(display.width / width, display.height / height)
Scale(c) ==
    RMin(Q(c.dw, c.w), Q(c.dh, c.h))

\* Indexing a numpy axis of length n with i: a negative i counts from the
\* end, and i outside [-n, n) raises IndexError.
NpValid(i, n) ==
    -n <= i /\ i < n

NpIndex(i, n) ==
    IF i < 0 THEN i + n ELSE i

\* BlendSubpixel with the old colour rescaled by 1 - factor alone (the divide
\* by the old coverage forgotten).
BlendSubpixelNoDivide(pixel, factor, dr, dg, db) ==
    LET pf == pixel[4]
        factor1 == RSub(One, factor)
    IN  IF pf = Zero \/ RLe(pf, factor1)
        THEN <<RAdd(pixel[1], RMul(factor, dr)),
               RAdd(pixel[2], RMul(factor, dg)),
               RAdd(pixel[3], RMul(factor, db)),
               RAdd(factor, pf)>>
        ELSE <<RMin(RAdd(RMul(factor1, pixel[1]), RMul(factor, dr)), One),
               RMin(RAdd(RMul(factor1, pixel[2]), RMul(factor, dg)), One),
               RMin(RAdd(RMul(factor1, pixel[3]), RMul(factor, db)), One),
               One>>

\* The compositing of the sub-pixel regime: the blended <<pr, pg, pb, pf>>
\* before it is stored.
BlendSubpixel(pixel, factor, dr, dg, db) ==
    LET pr == pixel[1]
        pg == pixel[2]
        pb == pixel[3]
        pf == pixel[4]
        factor1 == RSub(One, factor)
    IN  IF pf = Zero \/ RLe(pf, factor1)
        THEN <<RAdd(pr, RMul(factor, dr)),
               RAdd(pg, RMul(factor, dg)),
               RAdd(pb, RMul(factor, db)),
               RAdd(factor, pf)>>
        ELSE LET pfactor1 == RDiv(factor1, pf)
             IN  <<RMin(RAdd(RMul(pfactor1, pr), RMul(factor, dr)), One),
                   RMin(RAdd(RMul(pfactor1, pg), RMul(factor, dg)), One),
                   RMin(RAdd(RMul(pfactor1, pb), RMul(factor, db)), One),
                   One>>

\* BlendGeneral without its second branch: every draw is added.
BlendGeneralAdditive(pixel, factor, dr, dg, db) ==
    <<RAdd(pixel[1], RMul(factor, dr)),
      RAdd(pixel[2], RMul(factor, dg)),
      RAdd(pixel[3], RMul(factor, db)),
      RAdd(factor, pixel[4])>>

\* BlendGeneral whose first branch stores the factor as the coverage instead
\* of adding it.
BlendGeneralNoSum(pixel, factor, dr, dg, db) ==
    LET pf == pixel[4]
        factor1 == RSub(One, factor)
    IN  IF pf = Zero \/ RLe(pf, factor1)
        THEN <<RAdd(pixel[1], RMul(factor, dr)),
               RAdd(pixel[2], RMul(factor, dg)),
               RAdd(pixel[3], RMul(factor, db)),
               factor>>
        ELSE LET pfactor1 == RDiv(factor1, pf)
             IN  <<RMin(RAdd(RMul(pfactor1, pixel[1]), RMul(factor, dr)), One),
                   RMin(RAdd(RMul(pfactor1, pixel[2]), RMul(factor, dg)), One),
                   RMin(RAdd(RMul(pfactor1, pixel[3]), RMul(factor, db)), One),
                   One>>

\* The compositing of the general regime's inner loop.
BlendGeneral(pixel, factor, dr, dg, db) ==
    LET pr == pixel[1]
        pg == pixel[2]
        pb == pixel[3]
        pf == pixel[4]
        factor1 == RSub(One, factor)
    IN  IF pf = Zero \/ RLe(pf, factor1)
        THEN <<RAdd(pr, RMul(factor, dr)),
               RAdd(pg, RMul(factor, dg)),
               RAdd(pb, RMul(factor, db)),
               RAdd(factor, pf)>>
        ELSE LET pfactor1 == RDiv(factor1, pf)
             IN  <<RMin(RAdd(RMul(pfactor1, pr), RMul(factor, dr)), One),
                   RMin(RAdd(RMul(pfactor1, pg), RMul(factor, dg)), One),
                   RMin(RAdd(RMul(pfactor1, pb), RMul(factor, db)), One),
                   One>>

\* DirectPixel with the coverage left unset.
DirectPixelNoCoverage(dr, dg, db) ==
    <<dr, dg, db, Zero>>

\* The direct regime's buffer entry: colour as given, fully painted.
DirectPixel(dr, dg, db) ==
    <<dr, dg, db, One>>

\* Push that hands the Display the colour drawn instead of the blended one.
PushRaw(c, st, px, py, stored, sent, draw, factor, regime) ==
    LET ix == NpIndex(px, c.dw)
        iy == NpIndex(py, c.dh)
    IN  [st EXCEPT !.canvas[ix][iy] = stored,
                   !.calls = Append(@, <<"set", px, py, draw[1], draw[2], draw[3]>>),
                   !.hits = Append(@, [x |-> ix, y |-> iy, factor |-> factor,
                                       rgb |-> draw, regime |-> regime,
                                       n |-> st.n])]

\* "Remember" then "push to the display": buffer entry canvas[px][py] takes
\* `stored`, the Display receives set(px, py, sent).  hits records the update
\* (the entry written, the colour drawn, the factor it was blended with).
Push(c, st, px, py, stored, sent, draw, factor, regime) ==
    LET ix == NpIndex(px, c.dw)
        iy == NpIndex(py, c.dh)
    IN  [st EXCEPT !.canvas[ix][iy] = stored,
                   !.calls = Append(@, <<"set", px, py, sent[1], sent[2], sent[3]>>),
                   !.hits = Append(@, [x |-> ix, y |-> iy, factor |-> factor,
                                       rgb |-> draw, regime |-> regime,
                                       n |-> st.n])]

\* The buffer entry remembered for the blended values p.
Remembered(p) ==
    <<Remember(p[1]), Remember(p[2]), Remember(p[3]), Remember(p[4])>>

\* The direct regime's condition.
IsDirect(scale, dx, dy, width, height) ==
    /\ scale = One
    /\ IsInt(dx) /\ IsInt(dy)
    /\ RLe(Zero, dx) /\ RLt(dx, I(width))
    /\ RLe(Zero, dy) /\ RLt(dy, I(height))

\* The sub-pixel regime's condition.
IsSubpixel(scale, dx, dy, width, height) ==
    /\ RLt(scale, One)
    /\ RLe(Zero, dx) /\ RLt(dx, I(width))
    /\ RLe(Zero, dy) /\ RLt(dy, I(height))

\* Offsets that split the side evenly about the centre.
OffsetsCentred(scale) ==
    [l |-> RDiv(scale, I(2)), r |-> RDiv(scale, I(2))]

\* The split of the side into the left/top and right/bottom offsets.
Offsets(scale) ==
    LET half == RMax(Zero, RDiv(RSub(scale, One), I(2)))
    IN  IF PyInt(scale) % 2 = 1
        THEN [l |-> I(PyInt(half)), r |-> RSub(scale, I(PyInt(half)))]
        ELSE [l |-> RSub(scale, I(PyInt(half))), r |-> I(PyInt(half))]

\* The area of cell (px, py) taken by the square [dxl, dxr] x [dyt, dyb].
Area(px, py, dxl, dxr, dyt, dyb) ==
    LET cxl == RMax(dxl, I(px))
        cxr == RMin(dxr, I(px + 1))
        cyt == RMax(dyt, I(py))
        cyb == RMin(dyb, I(py + 1))
    IN  RMul(RAbs(RSub(cxr, cxl)), RAbs(RSub(cyb, cyt)))

\* Wrap that wraps a negative coordinate one short of the far edge.
WrapOffByOne(p, n, wrap) ==
    IF p < 0 \/ p >= n
    THEN IF wrap
         THEN [skip |-> FALSE, p |-> IF p < 0 THEN p + n - 1 ELSE p - n]
         ELSE [skip |-> TRUE, p |-> p]
    ELSE [skip |-> FALSE, p |-> p]

\* One axis of "noodle the pixel x,y if we are wrapping, else bail": the
\* coordinate to use, or skip.
Wrap(p, n, wrap) ==
    IF p < 0 \/ p >= n
    THEN IF wrap
         THEN [skip |-> FALSE, p |-> IF p < 0 THEN p + n ELSE p - n]
         ELSE [skip |-> TRUE, p |-> p]
    ELSE [skip |-> FALSE, p |-> p]

\* The body of the inner loop for candidate cell (px_, py_).
Cell(c, st, d, px_, py_) ==
    LET area == Area(px_, py_, d.dxl, d.dxr, d.dyt, d.dyb)
        factor == IF RLt(One, area) THEN One ELSE area
        wx == Wrap(px_, c.dw, c.xwrap)
        wy == Wrap(py_, c.dh, c.ywrap)
    IN  IF RLe(area, Zero) THEN st
        ELSE IF wx.skip THEN st
        ELSE IF wy.skip THEN st
        ELSE IF ~NpValid(wx.p, c.dw) \/ ~NpValid(wy.p, c.dh)
             THEN [st EXCEPT !.err = "IndexError"]
        ELSE LET pixel == st.canvas[NpIndex(wx.p, c.dw)][NpIndex(wy.p, c.dh)]
                 p == BlendGeneral(pixel, factor, d.dr, d.dg, d.db)
             IN  Push(c, st, wx.p, wy.p, Remembered(p), p,
                      <<d.dr, d.dg, d.db>>, factor, "general")

\* for px_ in range(int(dxl), int(dxr) + 1):
\*     for py_ in range(int(dyt), int(dyb) + 1):
\* as one walk over k = 0 .. nx * ny - 1, which an exception ends.
RECURSIVE Walk(_, _, _, _)
Walk(c, st, d, k) ==
    LET x0 == PyInt(d.dxl)
        y0 == PyInt(d.dyt)
        nx == PyInt(d.dxr) + 1 - x0
        ny == PyInt(d.dyb) + 1 - y0
        done == Cell(c, st, d, x0 + (k \div ny), y0 + (k % ny))
    IN  IF nx <= 0 \/ ny <= 0 \/ k >= nx * ny THEN st
        ELSE IF done.err # "none" THEN done
        ELSE Walk(c, done, d, k + 1)

\* The general regime.
General(c, st, scale, dx, dy, dr, dg, db) ==
    LET off == Offsets(scale)
        d == [dxl |-> RSub(dx, off.l), dxr |-> RAdd(dx, off.r),
              dyt |-> RSub(dy, off.l), dyb |-> RAdd(dy, off.r),
              dr |-> dr, dg |-> dg, db |-> db]
    IN  Walk(c, st, d, 0)

\* Canvas.set(x, y, r, g, b, s) applied to st = [canvas, calls, hits, err, n]:
\* the buffer, the calls the Display has received from the running operation,
\* the buffer updates since the last clear(), the exception raised (or
\* "none"), and n, the number of the running draw since the last clear().
CanvasSet(c, st, x, y, r, g, b, s) ==
    LET scale == RMul(s, Scale(c))
        dx == RMul(x, Scale(c))
        dy == RMul(y, Scale(c))
        dr == Clamp(r)
        dg == Clamp(g)
        db == Clamp(b)
    IN  IF RLe(scale, Zero) THEN st
        ELSE IF IsDirect(scale, dx, dy, c.dw, c.dh)
             THEN Push(c, st, PyInt(dx), PyInt(dy), DirectPixel(dr, dg, db),
                       <<dr, dg, db>>, <<dr, dg, db>>, One, "direct")
        ELSE IF IsSubpixel(scale, dx, dy, c.dw, c.dh)
             THEN LET factor == RMul(scale, scale)
                      pixel == st.canvas[PyInt(dx)][PyInt(dy)]
                      p == BlendSubpixel(pixel, factor, dr, dg, db)
                  IN  Push(c, st, PyInt(dx), PyInt(dy), Remembered(p), p,
                           <<dr, dg, db>>, factor, "subpixel")
        ELSE General(c, st, scale, dx, dy, dr, dg, db)

-----------------------------------------------------------------------------
(* Canvas.set_image() *)

\* The colours an image is made of, as PIL's getpixel() returns them.
Palette ==
    <<<<255, 0, 0>>, <<0, 255, 0>>, <<51, 102, 255>>, <<0, 0, 0>>>>

\* image.getpixel((ix, iy)) of the iw x ih image of pattern k.
GetPixel(image, ix, iy) ==
    Palette[((ix + iy * image.iw + image.k) % Len(Palette)) + 1]

\* sz = max(sw, sh); if sz > 1: sz = math.ceil(sz)
BrushSize(sw, sh) ==
    LET sz == RMax(sw, sh)
    IN  IF RLt(One, sz) THEN I(Ceil(sz)) ELSE sz

\* for ix in range(iw): for iy in range(ih): self.set(dx, dy, rgb / 255, sz)
\* as one walk over k = 0 .. iw * ih - 1, which an exception ends.
RECURSIVE ImageWalk(_, _, _, _)
ImageWalk(c, st, image, k) ==
    LET sw == Q(c.dw, image.iw)
        sh == Q(c.dh, image.ih)
        ix == k \div image.ih
        iy == k % image.ih
        dx == PyRound(RMul(I(ix), sw))
        dy == PyRound(RMul(I(iy), sh))
        rgb == GetPixel(image, ix, iy)
        done == CanvasSet(c, st, I(dx), I(dy), Q(rgb[1], 255), Q(rgb[2], 255),
                          Q(rgb[3], 255), BrushSize(sw, sh))
    IN  IF k >= image.iw * image.ih THEN st
        ELSE IF done.err # "none" THEN done
        ELSE ImageWalk(c, done, image, k + 1)

\* Canvas.set_image(image)
CanvasSetImage(c, st, image) ==
    IF image.iw <= 0 \/ image.ih <= 0
    THEN [st EXCEPT !.err = "ValueError"]
    ELSE ImageWalk(c, st, image, 0)

-----------------------------------------------------------------------------
(* clear(), show(), quit() *)

\* The buffer numpy.zeros() makes, and clear() restores.
Zeros(c) ==
    [x \in 0 .. c.dw - 1 |-> [y \in 0 .. c.dh - 1 |-> EmptyPixel]]

\* Canvas.clear(): the Display's clear(), then the buffer is zeroed.
CanvasClear(c, st) ==
    [st EXCEPT !.calls = Append(@, <<"clear">>), !.canvas = Zeros(c), !.hits = <<>>]

\* Canvas.show(): the Display's show().
CanvasShow(c, st) ==
    [st EXCEPT !.calls = Append(@, <<"show">>)]

\* Display.quit(): clear() then show(); the PIL-backed Displays then reset
\* their device.  The calls the Display makes on itself and its device.
DisplayQuit(sink) ==
    <<<<"clear">>, <<"show">>>> \o (IF sink = "ST7789TFT" THEN <<<<"reset">>>> ELSE <<>>)

\* Canvas.quit() written as Canvas.clear(), Canvas.show(), then the
\* Display's quit().
CanvasQuitClearing(c, st) ==
    [CanvasShow(c, CanvasClear(c, st)) EXCEPT !.calls = @ \o DisplayQuit(c.sink)]

\* Canvas.quit(): self._display.quit().
CanvasQuit(c, st) ==
    [st EXCEPT !.calls = @ \o DisplayQuit(c.sink)]

-----------------------------------------------------------------------------
(* The PIL-backed Display (pils.py): an image of w x h pixels, written       *)
(* through the orientation helper.  A device d is [w, h, orientation,        *)
(* image, call, puts, err]: call the last operation made on it, puts the     *)
(* putpixel() positions of that operation.                                   *)

\* Display._orient(x, y)
Orient(d, x, y) ==
    CASE d.orientation = 0 -> <<x, y>>
      [] d.orientation = 90 -> <<y, x>>
      [] d.orientation = 180 -> <<d.w - x, d.h - y>>
      [] d.orientation = 270 -> <<d.w - y, d.h - x>>

\* int(255 * min(max(v, 0.0), 1.0))
Byte(v) ==
    PyInt(RMul(I(255), RMin(RMax(v, Zero), One)))

\* _PIL.set(x, y, r, g, b)
PilSet(d, x, y, r, g, b) ==
    LET p == Orient(d, x, y)
    IN  IF 0 <= p[1] /\ p[1] < d.w /\ 0 <= p[2] /\ p[2] < d.h
        THEN [d EXCEPT !.image[p[1]][p[2]] = <<Byte(r), Byte(g), Byte(b)>>,
                       !.call = <<"set", x, y>>, !.puts = <<p>>, !.err = "none"]
        ELSE [d EXCEPT !.call = <<"set", x, y>>, !.puts = <<>>, !.err = "none"]

\* Image.new('RGB', (width, height), color=(0,0,0)), and _PIL.clear()
Blank(w, h) ==
    [x \in 0 .. w - 1 |-> [y \in 0 .. h - 1 |-> <<0, 0, 0>>]]

\* _PIL.clear()
PilClear(d) ==
    [d EXCEPT !.image = Blank(d.w, d.h), !.call = <<"clear", 0, 0>>, !.puts = <<>>,
              !.err = "none"]

\* Display.set_orientation(orientation)
PilSetOrientation(d, o) ==
    IF o \notin {0, 90, 180, 270}
    THEN [d EXCEPT !.call = <<"set_orientation", o, 0>>, !.puts = <<>>, !.err = "ValueError"]
    ELSE [d EXCEPT !.orientation = o, !.call = <<"set_orientation", o, 0>>, !.puts = <<>>,
                   !.err = "none"]

-----------------------------------------------------------------------------
(* The state machine: a caller that constructs a Canvas over a Display and   *)
(* calls its operations.                                                     *)

VARIABLES cfg, canvas, calls, hits, err, last, draws, alive, pil

vars ==
    <<cfg, canvas, calls, hits, err, last, draws, alive, pil>>

\* The draws the caller may make between two clear() calls.
MaxDraws ==
    2

\* The Displays and Canvases constructed: physical dw x dh, logical w x h
\* (scale 1, 1 with a flatter logical canvas, 1, 2, 1/2 and 3/2).
Configs ==
    { [dw |-> 3, dh |-> 2, w |-> 3, h |-> 2, xwrap |-> FALSE, ywrap |-> FALSE, sink |-> "NullDisplay"],
      [dw |-> 3, dh |-> 2, w |-> 3, h |-> 1, xwrap |-> TRUE,  ywrap |-> FALSE, sink |-> "ST7789TFT"],
      [dw |-> 2, dh |-> 2, w |-> 2, h |-> 2, xwrap |-> TRUE,  ywrap |-> TRUE,  sink |-> "NullDisplay"],
      [dw |-> 4, dh |-> 2, w |-> 2, h |-> 1, xwrap |-> FALSE, ywrap |-> TRUE,  sink |-> "ST7789TFT"],
      [dw |-> 2, dh |-> 2, w |-> 4, h |-> 4, xwrap |-> TRUE,  ywrap |-> FALSE, sink |-> "NullDisplay"],
      [dw |-> 3, dh |-> 3, w |-> 2, h |-> 2, xwrap |-> FALSE, ywrap |-> FALSE, sink |-> "NullDisplay"] }

\* The colours drawn: one inside [0,1], one that needs clamping.
ColourA ==
    <<One, Q(1, 2), Zero>>

ColourB ==
    <<I(2), I(-1), Q(1, 2)>>

\* Physical <<centre x, centre y, side>> of draws made in both colours: the
\* sub-pixel regime and the direct regime.
BlendDraws(c) ==
    { <<I(0), I(0), Q(3, 4)>>, <<I(0), I(0), I(1)>> }

\* Draws of the general regime inside the grid: a fractional centre, an even
\* side, a fractional side, an odd side over the right edge.
BlockDraws(c) ==
    { <<Q(1, 2), Q(1, 2), I(1)>>, <<I(1), I(1), I(2)>>, <<I(0), I(0), Q(3, 2)>>,
      <<I(c.dw - 1), I(0), I(3)>> }

\* Draws of side 1 on and beyond the edges of the grid.
EdgeDraws(c) ==
    { <<Q(-1, 2), Q(-1, 2), I(1)>>, <<I(-1), I(0), I(1)>>, <<Q(-3, 2), I(0), I(1)>>,
      <<I(2 * c.dw), I(0), I(1)>>, <<I(-c.dw - 1), I(0), I(1)>>,
      <<I(0), I(-1), I(1)>>, <<I(0), I(2 * c.dh), I(1)>> }

\* The same in the caller's logical units.
Logical(c, t, rgb) ==
    <<RDiv(t[1], Scale(c)), RDiv(t[2], Scale(c)), RDiv(t[3], Scale(c)), rgb>>

\* The arguments <<x, y, s, <<r, g, b>>>> of the set() calls made: the draws
\* above, the logical point (1, 1) with the size of one physical pixel, and a
\* draw of size 0.
DrawArgs(c) ==
    { Logical(c, t, rgb) : t \in BlendDraws(c), rgb \in {ColourA, ColourB} }
    \cup { Logical(c, t, ColourB) : t \in BlockDraws(c) }
    \cup { Logical(c, t, ColourA) : t \in EdgeDraws(c) }
    \cup { <<I(1), I(1), RDiv(One, Scale(c)), ColourB>>, <<I(0), I(0), Zero, ColourA>> }

\* The images drawn: of the grid's size, a single pixel, one of no width and,
\* on a Canvas of scale 1, one twice as wide as the grid.
Images(c) ==
    { [iw |-> c.dw, ih |-> c.dh, k |-> 0], [iw |-> 1, ih |-> 1, k |-> 2],
      [iw |-> 0, ih |-> c.dh, k |-> 0] }
    \cup (IF Scale(c) = One THEN {[iw |-> 2 * c.dw, ih |-> c.dh, k |-> 1]} ELSE {})

NoImage ==
    [iw |-> 0, ih |-> 0, k |-> 0]

NoArgs ==
    <<Zero, Zero, Zero, <<Zero, Zero, Zero>>>>

\* The Display's device, which the Canvas's caller does not look into.
NoPil ==
    [w |-> 0, h |-> 0, orientation |-> 0, image |-> <<>>, call |-> <<"none", 0, 0>>,
     puts |-> <<>>, err |-> "none"]

\* The operation's starting point: no call made yet, no exception.
Enter ==
    [canvas |-> canvas, calls |-> <<>>, hits |-> hits, err |-> "none", n |-> draws + 1]

Leave(st) ==
    /\ canvas' = st.canvas
    /\ calls' = st.calls
    /\ hits' = st.hits
    /\ err' = st.err

Init ==
    /\ cfg \in Configs
    /\ canvas = Zeros(cfg)
    /\ calls = <<>>
    /\ hits = <<>>
    /\ err = "none"
    /\ last = [op |-> "init", args |-> NoArgs, image |-> NoImage]
    /\ draws = 0
    /\ alive = TRUE
    /\ pil = NoPil

Set(a) ==
    /\ alive /\ draws < MaxDraws
    /\ Leave(CanvasSet(cfg, Enter, a[1], a[2], a[4][1], a[4][2], a[4][3], a[3]))
    /\ last' = [op |-> "set", args |-> a, image |-> NoImage]
    /\ draws' = draws + 1
    /\ UNCHANGED <<cfg, alive, pil>>

SetImage(image) ==
    /\ alive /\ draws < MaxDraws
    /\ Leave(CanvasSetImage(cfg, Enter, image))
    /\ last' = [op |-> "set_image", args |-> NoArgs, image |-> image]
    /\ draws' = draws + 1
    /\ UNCHANGED <<cfg, alive, pil>>

Clear ==
    /\ alive
    /\ Leave(CanvasClear(cfg, Enter))
    /\ last' = [op |-> "clear", args |-> NoArgs, image |-> NoImage]
    /\ draws' = 0
    /\ UNCHANGED <<cfg, alive, pil>>

Show ==
    /\ alive
    /\ Leave(CanvasShow(cfg, Enter))
    /\ last' = [op |-> "show", args |-> NoArgs, image |-> NoImage]
    /\ UNCHANGED <<cfg, draws, alive, pil>>

Quit ==
    /\ alive
    /\ Leave(CanvasQuit(cfg, Enter))
    /\ last' = [op |-> "quit", args |-> NoArgs, image |-> NoImage]
    /\ alive' = FALSE
    /\ UNCHANGED <<cfg, draws, pil>>

Next ==
    \/ \E a \in DrawArgs(cfg) : Set(a)
    \/ \E image \in Images(cfg) : SetImage(image)
    \/ Clear
    \/ Show
    \/ Quit

Spec ==
    Init /\ [][Next]_vars

-----------------------------------------------------------------------------
(* The same caller over larger Canvases of scale 1 without wrapping, drawing *)
(* blocks, points at fractional centres and images that need enlarging.     *)

GridConfigs ==
    { [dw |-> 8, dh |-> 8, w |-> 8, h |-> 8, xwrap |-> FALSE, ywrap |-> FALSE, sink |-> "NullDisplay"],
      [dw |-> 4, dh |-> 4, w |-> 4, h |-> 4, xwrap |-> FALSE, ywrap |-> FALSE, sink |-> "NullDisplay"],
      [dw |-> 3, dh |-> 3, w |-> 3, h |-> 3, xwrap |-> FALSE, ywrap |-> FALSE, sink |-> "NullDisplay"] }

\* Blocks of side 2, 3 and 4 about an integral centre three short of the far
\* corner: (5, 5) on the 8 x 8 grid.
GridBlocks(c) ==
    { <<I(c.dw - 3), I(c.dh - 3), I(s), ColourA>> : s \in 2 .. 4 }

\* Points of side 1 at fractional centres.
GridPoints(c) ==
    { <<Q(1, 2), Q(1, 2), One, ColourA>>, <<Q(1, 2), Q(1, 2), One, ColourB>>,
      <<Q(5, 4), Q(1, 4), One, ColourB>>, <<Q(1, 4), Q(7, 4), One, ColourA>>,
      <<Q(9, 4), Q(3, 2), One, ColourB>> }

GridDrawArgs(c) ==
    GridBlocks(c) \cup GridPoints(c)

\* Images of half the grid's size (a third, on the 3 x 3 grid) and of one
\* pixel, drawn on the grids of up to 4 x 4.
GridImages(c) ==
    IF c.dw > 4 THEN {}
    ELSE { [iw |-> c.dw \div 2, ih |-> c.dh \div 2, k |-> 0], [iw |-> 1, ih |-> 1, k |-> 2] }

GridInit ==
    /\ cfg \in GridConfigs
    /\ canvas = Zeros(cfg)
    /\ calls = <<>>
    /\ hits = <<>>
    /\ err = "none"
    /\ last = [op |-> "init", args |-> NoArgs, image |-> NoImage]
    /\ draws = 0
    /\ alive = TRUE
    /\ pil = NoPil

GridNext ==
    \/ \E a \in GridDrawArgs(cfg) : Set(a)
    \/ \E image \in GridImages(cfg) : SetImage(image)
    \/ Clear
    \/ Show
    \/ Quit

SpecGrid ==
    GridInit /\ [][GridNext]_vars

-----------------------------------------------------------------------------
(* A caller that drives a PIL-backed Display directly.                       *)

\* The set() calls the caller may make between two clear() calls.
MaxWrites ==
    2

\* _PIL.__init__(2, 3): a device that is not square, at orientation 0.
NewPil ==
    [w |-> 2, h |-> 3, orientation |-> 0, image |-> Blank(2, 3), call |-> <<"init", 0, 0>>,
     puts |-> <<>>, err |-> "none"]

\* The Canvas, which this caller leaves alone.
SinkCfg ==
    [dw |-> 2, dh |-> 3, w |-> 2, h |-> 3, xwrap |-> FALSE, ywrap |-> FALSE, sink |-> "ST7789TFT"]

\* The number of set() calls made since the last clear().
Writes ==
    draws

SinkInit ==
    /\ cfg = SinkCfg
    /\ canvas = Zeros(cfg)
    /\ calls = <<>>
    /\ hits = <<>>
    /\ err = "none"
    /\ last = [op |-> "init", args |-> NoArgs, image |-> NoImage]
    /\ draws = 0
    /\ alive = TRUE
    /\ pil = NewPil

SinkSet(x, y, rgb) ==
    /\ Writes < MaxWrites
    /\ pil' = PilSet(pil, x, y, rgb[1], rgb[2], rgb[3])
    /\ draws' = draws + 1
    /\ UNCHANGED <<cfg, canvas, calls, hits, err, last, alive>>

SinkClear ==
    /\ pil' = PilClear(pil)
    /\ draws' = 0
    /\ UNCHANGED <<cfg, canvas, calls, hits, err, last, alive>>

SinkSetOrientation(o) ==
    /\ pil' = PilSetOrientation(pil, o)
    /\ UNCHANGED <<cfg, canvas, calls, hits, err, last, draws, alive>>

SinkNext ==
    \/ \E x \in -1 .. 3, y \in -1 .. 3, rgb \in {ColourA, ColourB} : SinkSet(x, y, rgb)
    \/ SinkClear
    \/ \E o \in {0, 45, 90, 180, 270} : SinkSetOrientation(o)

SpecSink ==
    SinkInit /\ [][SinkNext]_vars

-----------------------------------------------------------------------------
(* Properties *)

Pixels ==
    {<<x, y>> : x \in 0 .. cfg.dw - 1, y \in 0 .. cfg.dh - 1}

\* The buffer updates made to pixel p since the last clear(), oldest first.
HitsOf(p) ==
    SelectSeq(hits, LAMBDA h : h.x = p[1] /\ h.y = p[2])

\* The colour a draw of <<r, g, b>> is to paint: each channel within [0,1].
Clamped(rgb) ==
    [i \in 1 .. 3 |-> IF rgb[i][1] < 0 THEN Zero ELSE IF rgb[i][1] > rgb[i][2] THEN One ELSE rgb[i]]

InUnit(v) ==
    0 <= v[1] /\ v[1] <= v[2]

\* C1: after any sequence of set(), set_image() and clear() calls every
\* buffer entry has its coverage and its three channels within [0,1], and an
\* entry of coverage 0 has r = g = b = 0.
C1_PixelState ==
    \A p \in Pixels :
        LET e == canvas[p[1]][p[2]]
        IN  /\ \A i \in 1 .. 4 : InUnit(e[i])
            /\ e[4] = Zero => (e[1] = Zero /\ e[2] = Zero /\ e[3] = Zero)

\* A set() of the out-of-range colour has run on a buffer already drawn on,
\* leaving a partly covered entry and a fully covered one.
C1_Witness ==
    /\ last.op = "set" /\ last.args[4] = ColourB /\ draws = 2
    /\ \E p \in Pixels : canvas[p[1]][p[2]][4] # Zero /\ canvas[p[1]][p[2]][4] # One
    /\ \E p \in Pixels : canvas[p[1]][p[2]][4] = One /\ Len(HitsOf(p)) >= 2

\* C2: when the update a set() call leaves last on a pixel was made with
\* factor 1, in the direct or in the general regime, the pixel has coverage 1
\* and exactly the clamped colour of the call, whatever it held before.
C2_FullOverwrite ==
    last.op = "set" =>
        \A p \in Pixels :
            LET hs == HitsOf(p)
            IN  (Len(hs) > 0 /\ hs[Len(hs)].n = draws /\ hs[Len(hs)].factor = One) =>
                    canvas[p[1]][p[2]] = <<Clamped(last.args[4])[1], Clamped(last.args[4])[2],
                                           Clamped(last.args[4])[3], One>>

\* A factor-1 update of the general regime on a pixel that was partly covered
\* by an earlier draw of the other colour.
C2_Witness ==
    /\ last.op = "set"
    /\ \E p \in Pixels :
          LET hs == HitsOf(p)
          IN  /\ Len(hs) = 2
              /\ hs[2].n = draws /\ hs[2].factor = One /\ hs[2].regime = "general"
              /\ hs[1].n < draws /\ hs[1].factor # One /\ hs[1].rgb # hs[2].rgb

\* The buffer entries that are not (0, 0, 0, 0).
Painted ==
    {p \in Pixels : canvas[p[1]][p[2]] # EmptyPixel}

\* The last operation was set(x, y, r, g, b, s) with s * scale = 1, called on
\* an empty buffer.
UnitDrawOnEmpty ==
    /\ last.op = "set" /\ draws = 1
    /\ RMul(last.args[3], Scale(cfg)) = One

\* What C3 promises of such a call that lands on physical pixel p: p alone is
\* painted, fully and in the clamped colour, and the Display received
\* exactly one call, set(p, clamped colour).
OnePixelDrawn(p) ==
    /\ Painted = {p}
    /\ canvas[p[1]][p[2]] = <<Clamped(last.args[4])[1], Clamped(last.args[4])[2],
                              Clamped(last.args[4])[3], One>>
    /\ calls = << <<"set", p[1], p[2], Clamped(last.args[4])[1], Clamped(last.args[4])[2],
                    Clamped(last.args[4])[3]>> >>

\* C3 as claimed: for any scale, set() with integral logical x, y inside the
\* canvas and s * scale = 1, on an empty buffer, paints exactly one physical
\* pixel with coverage 1 and the clamped colour and makes exactly one call of
\* the Display's set().
C3_AsClaimed ==
    ( /\ UnitDrawOnEmpty
      /\ IsInt(last.args[1]) /\ IsInt(last.args[2])
      /\ 0 <= last.args[1][1] /\ last.args[1][1] < cfg.w
      /\ 0 <= last.args[2][1] /\ last.args[2][1] < cfg.h )
    => \E p \in Pixels : OnePixelDrawn(p)

\* C3 amended: the same, for x, y whose physical images x * scale, y * scale
\* are integral and inside the physical grid; the pixel painted is
\* (x * scale, y * scale).
C3_UnitDraw ==
    LET dx == RMul(last.args[1], Scale(cfg))
        dy == RMul(last.args[2], Scale(cfg))
    IN  ( /\ UnitDrawOnEmpty
          /\ IsInt(dx) /\ IsInt(dy)
          /\ 0 <= dx[1] /\ dx[1] < cfg.dw
          /\ 0 <= dy[1] /\ dy[1] < cfg.dh )
        => OnePixelDrawn(<<dx[1], dy[1]>>)

\* Such a call has run, on a Canvas whose scale is not 1, with the colour
\* that needs clamping.
C3_Witness ==
    /\ UnitDrawOnEmpty
    /\ Scale(cfg) # One
    /\ last.args[4] = ColourB
    /\ Len(hits) = 1 /\ hits[1].regime = "direct"

\* Pixel p has been updated exactly twice since it was empty.
TwoDraws(p) ==
    Len(HitsOf(p)) = 2

\* C4: an empty pixel drawn on with colour c1 and factor f1, then with colour
\* c2 and factor f2, f1 + f2 <= 1, has coverage f1 + f2 and each channel
\* f1 * c1 + f2 * c2.
C4_Additive ==
    \A p \in Pixels :
        LET h == HitsOf(p)
        IN  (TwoDraws(p) /\ RLe(RAdd(h[1].factor, h[2].factor), One)) =>
                /\ canvas[p[1]][p[2]][4] = RAdd(h[1].factor, h[2].factor)
                /\ \A i \in 1 .. 3 :
                      canvas[p[1]][p[2]][i] =
                          RAdd(RMul(h[1].factor, h[1].rgb[i]), RMul(h[2].factor, h[2].rgb[i]))

\* Two set() calls have drawn different colours on one pixel, one in the
\* sub-pixel regime and one in the general regime, with f1 + f2 <= 1.
C4_Witness ==
    \E p \in Pixels :
        LET h == HitsOf(p)
        IN  /\ TwoDraws(p) /\ RLe(RAdd(h[1].factor, h[2].factor), One)
            /\ h[1].n = 1 /\ h[2].n = 2 /\ h[1].rgb # h[2].rgb
            /\ {h[1].regime, h[2].regime} = {"subpixel", "general"}

\* C5 as claimed: with f1 + f2 > 1 the pixel ends with coverage 1 and each
\* channel min(((1 - f1) / pf1) * c1 + f2 * c2, 1), pf1 the coverage stored
\* after the first draw.  (Stated of draws whose centre is inside the grid
\* and whose side is at most one pixel: the direct and sub-pixel regimes.)
C5_AsClaimed ==
    \A p \in Pixels :
        LET h == HitsOf(p)
            pf1 == h[1].factor
        IN  ( /\ TwoDraws(p) /\ RLt(One, RAdd(h[1].factor, h[2].factor))
              /\ {h[1].regime, h[2].regime} \subseteq {"direct", "subpixel"} ) =>
                /\ canvas[p[1]][p[2]][4] = One
                /\ \A i \in 1 .. 3 :
                      canvas[p[1]][p[2]][i] =
                          RMin(RAdd(RMul(RDiv(RSub(One, h[1].factor), pf1), h[1].rgb[i]),
                                    RMul(h[2].factor, h[2].rgb[i])), One)

\* C5 amended: with f1 + f2 > 1 the pixel ends with coverage 1 and each
\* channel min(((1 - f2) / pf1) * s1 + f2 * c2, 1), where pf1 = f1 and
\* s1 = f1 * c1 are the coverage and the channel stored after the first draw.
C5_Saturating ==
    \A p \in Pixels :
        LET h == HitsOf(p)
            pf1 == h[1].factor
        IN  (TwoDraws(p) /\ RLt(One, RAdd(h[1].factor, h[2].factor))) =>
                /\ canvas[p[1]][p[2]][4] = One
                /\ \A i \in 1 .. 3 :
                      canvas[p[1]][p[2]][i] =
                          RMin(RAdd(RMul(RDiv(RSub(One, h[2].factor), pf1),
                                         RMul(h[1].factor, h[1].rgb[i])),
                                    RMul(h[2].factor, h[2].rgb[i])), One)

\* Two set() calls have drawn different colours on one pixel in the sub-pixel
\* regime, the first leaving it partly covered, with f1 + f2 > 1.
C5_Witness ==
    \E p \in Pixels :
        LET h == HitsOf(p)
        IN  /\ TwoDraws(p) /\ RLt(One, RAdd(h[1].factor, h[2].factor))
            /\ h[1].n = 1 /\ h[2].n = 2 /\ h[1].rgb # h[2].rgb
            /\ h[1].factor # One /\ h[2].regime = "subpixel"

\* The arguments of set() for a draw of one physical pixel's side at physical
\* (px, py), in colour rgb.
UnitDrawAt(px, py, rgb) ==
    <<RDiv(I(px), Scale(cfg)), RDiv(I(py), Scale(cfg)), RDiv(One, Scale(cfg)), rgb>>

\* What set(a) makes of the current state.
After(a) ==
    CanvasSet(cfg, Enter, a[1], a[2], a[4][1], a[4][2], a[4][3], a[3])

\* C6: a set() of a single pixel (physical side 1, integral coordinates, y in
\* bounds) at physical x = -1 leaves, with wrap_x on, the buffer and the
\* Display calls that the same draw at x = W - 1 leaves from the same state;
\* with wrap_x off it changes no buffer entry and calls the Display not at
\* all.
C6_WrapLeft ==
    [][ \A y \in 0 .. cfg.dh - 1 :
          (last'.op = "set" /\ last'.args = UnitDrawAt(-1, y, last'.args[4])) =>
              IF cfg.xwrap
              THEN /\ err' = "none"
                   /\ canvas' = After(UnitDrawAt(cfg.dw - 1, y, last'.args[4])).canvas
                   /\ calls' = After(UnitDrawAt(cfg.dw - 1, y, last'.args[4])).calls
              ELSE /\ err' = "none"
                   /\ canvas' = canvas
                   /\ calls' = <<>> ]_vars

\* With wrap_x on, such a draw at x = -1 has run on a buffer whose pixel
\* (W - 1, 0) was partly covered.
C6_Witness ==
    /\ cfg.xwrap
    /\ last.op = "set" /\ last.args = UnitDrawAt(-1, 0, last.args[4])
    /\ LET h == HitsOf(<<cfg.dw - 1, 0>>)
       IN  Len(h) = 2 /\ h[1].n = 1 /\ h[1].factor # One /\ h[2].n = 2

\* The square of side 2 * s * scale about the physical centre, which holds
\* the footprint however its side is split about the centre, lies outside
\* the grid.
FullyOutside(a) ==
    LET side == RMul(a[3], Scale(cfg))
        dx == RMul(a[1], Scale(cfg))
        dy == RMul(a[2], Scale(cfg))
    IN  \/ RLe(RAdd(dx, side), Zero)
        \/ RLe(I(cfg.dw), RSub(dx, side))
        \/ RLe(RAdd(dy, side), Zero)
        \/ RLe(I(cfg.dh), RSub(dy, side))

\* C7: with wrapping off on both axes, a set() whose footprint lies entirely
\* outside the physical grid changes no buffer entry and makes no Display
\* call.
C7_ClippedNoOp ==
    [][ (last'.op = "set" /\ ~cfg.xwrap /\ ~cfg.ywrap /\ FullyOutside(last'.args)) =>
            (canvas' = canvas /\ calls' = <<>>) ]_vars

\* C8: set() returns normally, whatever the coordinates, the size and the
\* wrap flags.
C8_Total ==
    last.op = "set" => err = "none"

\* C9: on an empty buffer, set_image() of an image of the physical grid's
\* width and height leaves every buffer entry (x, y) with coverage 1 and the
\* image's pixel (x, y) scaled to [0,1], for any logical size.
C9_ImageCopied ==
    ( /\ last.op = "set_image" /\ draws = 1
      /\ last.image.iw = cfg.dw /\ last.image.ih = cfg.dh )
    => \A p \in Pixels :
           canvas[p[1]][p[2]] = <<Q(GetPixel(last.image, p[1], p[2])[1], 255),
                                  Q(GetPixel(last.image, p[1], p[2])[2], 255),
                                  Q(GetPixel(last.image, p[1], p[2])[3], 255), One>>

\* C10 as claimed: quit() leaves every buffer entry (0, 0, 0, 0), having
\* cleared the Display, then flushed it, then shut it down.
C10_AsClaimed ==
    last.op = "quit" =>
        /\ Painted = {}
        /\ Len(calls) >= 2 /\ calls[1] = <<"clear">> /\ calls[2] = <<"show">>

\* C10 amended: quit() only calls the Display's quit(): the Display is
\* cleared, then flushed, then (a device-backed Display) reset, in that
\* order, and the Canvas's buffer is left as it was.
C10_QuitDelegates ==
    [][ last'.op = "quit" =>
            /\ canvas' = canvas
            /\ calls' = IF cfg.sink = "ST7789TFT"
                        THEN << <<"clear">>, <<"show">>, <<"reset">> >>
                        ELSE << <<"clear">>, <<"show">> >> ]_vars

\* quit() has run on a device-backed Display with a painted buffer.
C10_Witness ==
    /\ last.op = "quit"
    /\ cfg.sink = "ST7789TFT"
    /\ Painted # {}
    /\ ~alive

\* The weight of cell k on one axis for a side-1 footprint starting at v:
\* 1 - f on cell floor(v), f on the next, f the fractional part of v.
AxisWeight(v, k) ==
    LET i == Floor(v)
        f == RSub(v, I(i))
    IN  IF k = i THEN RSub(One, f) ELSE IF k = i + 1 THEN f ELSE Zero

\* The last operation was a size-1 set() on an empty buffer of a Canvas of
\* scale 1, at (i + fx, j + fy) with fx, fy in (0,1) and the four cells
\* (i, j) .. (i + 1, j + 1) inside the grid.
FractionalPoint ==
    /\ last.op = "set" /\ draws = 1
    /\ Scale(cfg) = One /\ last.args[3] = One
    /\ ~IsInt(last.args[1]) /\ ~IsInt(last.args[2])
    /\ 0 <= Floor(last.args[1]) /\ Floor(last.args[1]) + 1 < cfg.dw
    /\ 0 <= Floor(last.args[2]) /\ Floor(last.args[2]) + 1 < cfg.dh

\* C11: such a draw of colour c leaves cell (i, j) with coverage
\* (1-fx)(1-fy), (i+1, j) with fx(1-fy), (i, j+1) with (1-fx)fy and
\* (i+1, j+1) with fx*fy, each with colour coverage * clamp(c), every other
\* entry (0, 0, 0, 0), and the four coverages add up to 1.
C11_Bilinear ==
    FractionalPoint =>
        LET x == last.args[1]
            y == last.args[2]
            i == Floor(x)
            j == Floor(y)
            col == Clamped(last.args[4])
        IN  /\ \A p \in Pixels :
                  LET w == RMul(AxisWeight(x, p[1]), AxisWeight(y, p[2]))
                  IN  canvas[p[1]][p[2]] =
                          <<RMul(w, col[1]), RMul(w, col[2]), RMul(w, col[3]), w>>
            /\ RAdd(RAdd(canvas[i][j][4], canvas[i + 1][j][4]),
                    RAdd(canvas[i][j + 1][4], canvas[i + 1][j + 1][4])) = One

\* Such a draw has run with fx = 1/4 and fy = 3/4.
C11_Witness ==
    /\ FractionalPoint
    /\ last.args[1] = Q(1, 4) /\ last.args[2] = Q(7, 4)
    /\ canvas[0][2][4] = Q(9, 16) /\ canvas[1][1][4] = Q(1, 16)

\* The buffer updates the last draw has made, in order.
HitsOfLast ==
    SelectSeq(hits, LAMBDA h : h.n = draws)

\* C12: a set() (alone or inside set_image()) hands the Display one set call
\* per buffer update, in order and for the entry updated, with channels
\* within [0,1]; the call made for the last update of an entry carries
\* exactly the (r, g, b) the entry holds.
C12_SinkGetsStored ==
    last.op \in {"set", "set_image"} =>
        LET mine == HitsOfLast
        IN  /\ Len(calls) = Len(mine)
            /\ \A k \in 1 .. Len(calls) :
                  /\ calls[k][1] = "set"
                  /\ NpIndex(calls[k][2], cfg.dw) = mine[k].x
                  /\ NpIndex(calls[k][3], cfg.dh) = mine[k].y
                  /\ InUnit(calls[k][4]) /\ InUnit(calls[k][5]) /\ InUnit(calls[k][6])
                  /\ (\A j \in k + 1 .. Len(mine) : mine[j].x # mine[k].x \/ mine[j].y # mine[k].y)
                        => <<calls[k][4], calls[k][5], calls[k][6]>> =
                               <<canvas[mine[k].x][mine[k].y][1], canvas[mine[k].x][mine[k].y][2],
                                 canvas[mine[k].x][mine[k].y][3]>>

\* A set() has updated several entries, one of them drawn on before, and
\* handed the Display a blended colour that is not the colour drawn.
C12_Witness ==
    /\ last.op = "set" /\ draws = 2
    /\ Len(calls) >= 2
    /\ \E k \in 1 .. Len(calls) :
          /\ <<calls[k][4], calls[k][5], calls[k][6]>> # Clamped(last.args[4])
          /\ Len(HitsOf(<<HitsOfLast[k].x, HitsOfLast[k].y>>)) = 2

\* C13: a set(x, y, r, g, b) of the PIL-backed Display with (x, y) outside
\* [0, width) x [0, height) writes no pixel of the image and raises nothing,
\* at every orientation.
C13_OutOfBoundsIgnored ==
    ( /\ pil.call[1] = "set"
      /\ ~(0 <= pil.call[2] /\ pil.call[2] < pil.w /\ 0 <= pil.call[3] /\ pil.call[3] < pil.h) )
    => (pil.puts = <<>> /\ pil.err = "none")

\* The compositing rule as the specification states it, for a stored entry
\* e = <<pr, pg, pb, pf>> and a draw of colour d with factor f.
Composite(e, f, d) ==
    IF e[4] = Zero \/ RLe(e[4], RSub(One, f))
    THEN <<RAdd(e[1], RMul(f, d[1])), RAdd(e[2], RMul(f, d[2])),
           RAdd(e[3], RMul(f, d[3])), RAdd(e[4], f)>>
    ELSE LET k == RDiv(RSub(One, f), e[4])
         IN  <<RMin(RAdd(RMul(k, e[1]), RMul(f, d[1])), One),
               RMin(RAdd(RMul(k, e[2]), RMul(f, d[2])), One),
               RMin(RAdd(RMul(k, e[3]), RMul(f, d[3])), One), One>>

\* The buffer updates of the step's draw on pixel p.
NewHitsOf(p) ==
    SelectSeq(hits', LAMBDA h : h.n = draws' /\ h.x = p[1] /\ h.y = p[2])

\* C14: an entry that a set() call updates once, in the sub-pixel or in the
\* general regime, with factor f in (0, 1] and clamped colour d, goes from
\* its stored value e to Composite(e, f, d).
C14_Compositing ==
    [][ last'.op = "set" =>
            \A p \in Pixels :
                LET new == NewHitsOf(p)
                IN  (Len(new) = 1 /\ new[1].regime \in {"subpixel", "general"}) =>
                        /\ RLt(Zero, new[1].factor) /\ RLe(new[1].factor, One)
                        /\ canvas'[p[1]][p[2]] =
                              Composite(canvas[p[1]][p[2]], new[1].factor, new[1].rgb) ]_vars

\* The rule's second branch has been taken with a factor below 1 on an entry
\* that the other regime had partly covered with another colour.
C14_Witness ==
    /\ last.op = "set" /\ draws = 2
    /\ \E p \in Pixels :
          LET h == HitsOf(p)
          IN  /\ Len(h) = 2 /\ {h[1].regime, h[2].regime} = {"subpixel", "general"}
              /\ RLt(One, RAdd(h[1].factor, h[2].factor)) /\ RLt(h[2].factor, One)
              /\ h[1].rgb # h[2].rgb

\* The footprint [dxl, dxr] x [dyt, dyb] of set(a) in the general regime.
Footprint(a) ==
    LET off == Offsets(RMul(a[3], Scale(cfg)))
        dx == RMul(a[1], Scale(cfg))
        dy == RMul(a[2], Scale(cfg))
    IN  [dxl |-> RSub(dx, off.l), dxr |-> RAdd(dx, off.r),
         dyt |-> RSub(dy, off.l), dyb |-> RAdd(dy, off.r)]

\* set(a) takes the general regime.
TakesGeneral(a) ==
    LET scale == RMul(a[3], Scale(cfg))
        dx == RMul(a[1], Scale(cfg))
        dy == RMul(a[2], Scale(cfg))
    IN  /\ RLt(Zero, scale)
        /\ ~IsDirect(scale, dx, dy, cfg.dw, cfg.dh)
        /\ ~IsSubpixel(scale, dx, dy, cfg.dw, cfg.dh)

\* The length of the intersection of [lo, hi] with [k, k + 1], 0 if empty.
Overlap1(lo, hi, k) ==
    RMax(Zero, RSub(RMin(hi, I(k + 1)), RMax(lo, I(k))))

\* The area of the intersection of cell p's unit square with footprint f.
Overlap(f, p) ==
    RMul(Overlap1(f.dxl, f.dxr, p[1]), Overlap1(f.dyt, f.dyb, p[2]))

\* C15 (on the cells of the grid, wrapping off): a set() of the general
\* regime updates exactly the cells whose unit square meets the footprint
\* with positive area, each once and with factor min(1, that area).
C15_CellsAndFactors ==
    (last.op = "set" /\ err = "none" /\ ~cfg.xwrap /\ ~cfg.ywrap /\ TakesGeneral(last.args)) =>
        \A p \in Pixels :
            LET o == Overlap(Footprint(last.args), p)
                h == SelectSeq(HitsOfLast, LAMBDA u : u.x = p[1] /\ u.y = p[2])
            IN  IF RLt(Zero, o)
                THEN Len(h) = 1 /\ h[1].factor = RMin(One, o)
                ELSE Len(h) = 0

\* C16: every set call that set() hands the Display addresses a cell with
\* 0 <= x < physical width and 0 <= y < physical height, and no buffer entry
\* outside the grid is addressed, however far out of range the draw is.
C16_InGrid ==
    last.op = "set" =>
        /\ err # "IndexError"
        /\ \A k \in 1 .. Len(calls) :
              /\ 0 <= calls[k][2] /\ calls[k][2] < cfg.dw
              /\ 0 <= calls[k][3] /\ calls[k][3] < cfg.dh

\* C17: no set(), set_image(), show() or quit() lowers the coverage of any
\* entry, so an entry of coverage 1 keeps it; clear() leaves every entry at
\* coverage 0.
C17_CoverageMonotone ==
    [][ /\ last'.op \in {"set", "set_image", "show", "quit"} =>
              \A p \in Pixels : RLe(canvas[p[1]][p[2]][4], canvas'[p[1]][p[2]][4])
        /\ last'.op = "clear" =>
              \A p \in Pixels : canvas'[p[1]][p[2]][4] = Zero ]_vars

\* An entry that a draw had fully covered has been drawn on again with a
\* factor below 1 and another colour, and still has coverage 1.
C17_Witness ==
    \E p \in Pixels :
        LET h == HitsOf(p)
        IN  /\ Len(h) = 2 /\ h[1].factor = One /\ RLt(h[2].factor, One)
            /\ h[1].n = 1 /\ h[2].n = 2 /\ h[1].rgb # h[2].rgb
            /\ canvas[p[1]][p[2]][4] = One

\* C18: on an empty Canvas of scale 1 over a W x H grid, set_image() of an
\* iw x ih image with W = k * iw and H = k * ih, k >= 2 an integer, leaves
\* every entry (px, py) with coverage 1 and the colour of the source pixel
\* (px div k, py div k).
C18_Upscaled ==
    ( /\ last.op = "set_image" /\ draws = 1 /\ Scale(cfg) = One
      /\ last.image.iw > 0 /\ last.image.ih > 0
      /\ \E k \in 2 .. cfg.dw : cfg.dw = k * last.image.iw /\ cfg.dh = k * last.image.ih )
    => LET k == cfg.dw \div last.image.iw
       IN  \A p \in Pixels :
               LET src == GetPixel(last.image, p[1] \div k, p[2] \div k)
               IN  canvas[p[1]][p[2]] = <<Q(src[1], 255), Q(src[2], 255), Q(src[3], 255), One>>

\* The last operation was set() of side s at the integral centre (5, 5) of
\* the empty 8 x 8 Canvas of scale 1.
BlockAtFive(s) ==
    /\ last.op = "set" /\ draws = 1
    /\ cfg.dw = 8 /\ cfg.dh = 8 /\ Scale(cfg) = One
    /\ last.args[1] = I(5) /\ last.args[2] = I(5) /\ last.args[3] = I(s)

\* The entries lo .. hi on both axes are fully covered in the colour drawn,
\* each by one update of factor 1, and no other entry is touched.
BlockCovers(lo, hi) ==
    \A p \in Pixels :
        IF lo <= p[1] /\ p[1] <= hi /\ lo <= p[2] /\ p[2] <= hi
        THEN /\ canvas[p[1]][p[2]] = <<Clamped(last.args[4])[1], Clamped(last.args[4])[2],
                                       Clamped(last.args[4])[3], One>>
             /\ Len(HitsOf(p)) = 1 /\ HitsOf(p)[1].factor = One
        ELSE canvas[p[1]][p[2]] = EmptyPixel /\ Len(HitsOf(p)) = 0

\* C19: at the integral centre (5, 5) a side of 2 covers exactly (5,5) to
\* (6,6), a side of 3 exactly (4,4) to (6,6) and a side of 4 exactly (4,4)
\* to (7,7).
C19_DocumentedBlocks ==
    /\ BlockAtFive(2) => BlockCovers(5, 6)
    /\ BlockAtFive(3) => BlockCovers(4, 6)
    /\ BlockAtFive(4) => BlockCovers(4, 7)

\* The step is a set() call that takes the direct or the sub-pixel path.
TakesFastPath(a) ==
    LET scale == RMul(a[3], Scale(cfg))
        dx == RMul(a[1], Scale(cfg))
        dy == RMul(a[2], Scale(cfg))
    IN  /\ RLt(Zero, scale)
        /\ \/ IsDirect(scale, dx, dy, cfg.dw, cfg.dh)
           \/ IsSubpixel(scale, dx, dy, cfg.dw, cfg.dh)

\* What the general regime makes of the call a on the current buffer.
ByGeneral(a) ==
    General(cfg, Enter, RMul(a[3], Scale(cfg)), RMul(a[1], Scale(cfg)),
            RMul(a[2], Scale(cfg)), Clamp(a[4][1]), Clamp(a[4][2]), Clamp(a[4][3]))

\* C20: a set() call that takes the direct or the sub-pixel path leaves the
\* buffer, and hands the Display the sequence of set calls, that the general
\* regime's computation gives for the same arguments on the same buffer.
C20_FastPathsAsGeneral ==
    [][ ( /\ last'.op = "set" /\ draws' = draws + 1
          /\ TakesFastPath(last'.args) )
        => /\ canvas' = ByGeneral(last'.args).canvas
           /\ calls' = ByGeneral(last'.args).calls ]_vars

=============================================================================
